---- MODULE Spec2Model ----
(***************************************************************************)
(* GPEmul (4chmodel/Python/gpes_gsa/gpe.py): multi-restart training of a   *)
(* Gaussian process emulator with early stopping, restart-level model      *)
(* selection, the predict / sample operations of the fitted emulator, and  *)
(* GPEmulUtils.load_emulator, which rebuilds an emulator from the files a  *)
(* fitted one was persisted to.                                            *)
(*                                                                         *)
(* Numerical values the linear-algebra backend produces (losses, metric    *)
(* scores, optimised hyperparameters) are abstracted:                      *)
(*   - a hyperparameter state is [ls, step]: the lengthscale draw it was   *)
(*     optimised from and the number of optimizer steps applied since the  *)
(*     reset. Each attempt draws its lengthscales afresh from a continuous *)
(*     distribution, so the draw of the n-th attempt is named n;           *)
(*   - a loss is [k, v, h]: kind (finite / inf / nan), finite value, and   *)
(*     the hyperparameter state h it was evaluated at;                     *)
(*   - a metric score is [h]: the hyperparameter state it was scored at.   *)
(***************************************************************************)
EXTENDS Integers, Sequences, FiniteSets, TLC

\* ------------------------------------------------------------- bounds
MaxRestarts == 2
MaxEpochs == 3
MaxLoss == 0
MaxFailures == 1
MaxWork == 4

\* ------------------------------------------------------------- values
MetricNames == {"R2Score", "MAPE", "MSE"}

WatchMetricInputs == {"R2Score", "RMSE"}

\* What a forward pass can return for a loss, before it is tied to the
\* hyperparameter state it was evaluated at.
RawLoss ==
    [k : {"fin"}, v : 0..MaxLoss] \cup {[k |-> "inf", v |-> 0], [k |-> "nan", v |-> 0]}

LossAt(raw, h) == [k |-> raw.k, v |-> raw.v, h |-> h]

IsNaN(a) == a.k = "nan"

IsFinite(a) == a.k = "fin"

\* IEEE-754 "<" on floats: false whenever an operand is NaN.
Lt(a, b) ==
    /\ ~IsNaN(a)
    /\ ~IsNaN(b)
    /\ \/ a.k = "fin" /\ b.k = "inf"
       \/ a.k = "fin" /\ b.k = "fin" /\ a.v < b.v

\* IEEE-754 ">=".
Ge(a, b) ==
    /\ ~IsNaN(a)
    /\ ~IsNaN(b)
    /\ ~Lt(a, b)

\* np.argmin over a non-empty list, 0-based. numpy scans left to right,
\* moves to element j when not (x[j] >= min), and stops at the first NaN.
RECURSIVE ArgminScan(_, _, _)
ArgminScan(s, j, b) ==
    IF j > Len(s) \/ IsNaN(s[b]) THEN b
    ELSE IF ~Ge(s[j], s[b]) THEN ArgminScan(s, j + 1, j)
    ELSE ArgminScan(s, j + 1, b)

NpArgmin(s) == ArgminScan(s, 2, 1) - 1

\* Hyperparameters after __init__ (gpe.py:53-59).
InitHypers == [ls |-> 0, step |-> 0]

\* One Adam step applied in place to the model parameters.
OptimizerStep(h) == [h EXCEPT !.step = @ + 1]

\* Metric score of the predictive mean at hyperparameter state h.
MetricScore(h) == [h |-> h]

NoScaler == [fitted |-> FALSE, on |-> "none"]

FittedScaler(data) == [fitted |-> TRUE, on |-> data]

VARIABLES
    pc,                    \* position of the caller / of GPEmul.train
    exc,                   \* exception surfaced to the caller ("none" if none)
    printed,               \* last restart notice printed by train
    scale_data, scx, scy,  \* scaling configuration and the two Scalers
    learn_noise,           \* noise policy the emulator was constructed with
    model,                 \* live hyperparameters: self.model.state_dict()
    model_training,        \* self.model.training
    likelihood_training,   \* self.likelihood.training
    init_state,            \* self.init_state
    with_val, X_val, watch_metric, metric,
    n_restarts, max_epochs, patience, savepath,
    attempt,               \* number of train_once calls started
    i,                     \* restart counter of train
    train_loss_list, model_state_list, val_loss_list, metric_score_list,
    optimizer,             \* self.optimizer: steps taken since creation
    early_stopping,        \* the EarlyStopping monitor of the current attempt
    epoch,                 \* loop variable of train_once
    self_train_loss_list, self_val_loss_list, self_metric_score_list,
    best_model, idx_best, idx_min, metric_score,
    checkpoint,            \* content of the file at savepath (<<>> if none)
    emul                   \* the emulator load_emulator returned (<<>> if none)

constructionVars == <<scale_data, scx, scy, learn_noise, init_state>>

callVars ==
    <<with_val, X_val, watch_metric, metric, n_restarts, max_epochs, patience,
      savepath>>

restartLists ==
    <<train_loss_list, model_state_list, val_loss_list, metric_score_list>>

epochLists ==
    <<self_train_loss_list, self_val_loss_list, self_metric_score_list>>

modeVars == <<model_training, likelihood_training>>

vars ==
    <<pc, exc, printed, constructionVars, model, modeVars, callVars, attempt, i,
      restartLists, optimizer, early_stopping, epoch, epochLists, best_model,
      idx_best, idx_min, metric_score, checkpoint, emul>>

NoEarlyStopping == [patience |-> 0, best |-> <<>>, counter |-> 0, early_stop |-> FALSE]

\* The Scaler __init__ leaves for data (gpe.py:28-38): fitted on the
\* training data when scale_data is set, absent otherwise.
ScalerAtConstruction(sd, data) == IF sd THEN FittedScaler(data) ELSE NoScaler

\* GPEmul.__init__ (gpe.py:26-59) with learn_noise drawn from noise: the
\* Scalers are fitted on the training data when scale_data is set, the
\* initial hyperparameters are captured.
Constructed(noise) ==
    /\ scale_data \in BOOLEAN
    /\ learn_noise \in noise
    /\ scx = ScalerAtConstruction(scale_data, "X_train")
    /\ scy = ScalerAtConstruction(scale_data, "y_train")
    /\ emul = <<>>
    /\ model = InitHypers
    /\ init_state = InitHypers
    /\ model_training = TRUE
    /\ likelihood_training = TRUE
    /\ pc = "constructed"
    /\ exc = "none"
    /\ printed = [kind |-> "none", n |-> 0]
    /\ with_val = FALSE
    /\ X_val = "none"
    /\ watch_metric = "none"
    /\ metric = "none"
    /\ n_restarts = 0
    /\ max_epochs = 0
    /\ patience = 0
    /\ savepath = "none"
    /\ attempt = 0
    /\ i = 0
    /\ train_loss_list = <<>>
    /\ model_state_list = <<>>
    /\ val_loss_list = <<>>
    /\ metric_score_list = <<>>
    /\ optimizer = [steps |-> 0]
    /\ early_stopping = NoEarlyStopping
    /\ epoch = 0
    /\ self_train_loss_list = <<>>
    /\ self_val_loss_list = <<>>
    /\ self_metric_score_list = <<>>
    /\ best_model = <<>>
    /\ idx_best = 0
    /\ idx_min = 0
    /\ metric_score = <<>>
    /\ checkpoint = <<>>

\* An emulator constructed with the default noise policy (gpe.py:26).
Init == Constructed({FALSE})

\* An emulator constructed with either noise policy.
InitAnyNoise == Constructed(BOOLEAN)

\* ------------------------------------------------------------ train
\* Scaler.transform of the validation inputs (utils.preprocessing, external):
\* inputs of another feature dimensionality are a configuration error.
ScalerTransformRaises(x) == x = "mismatch"

\* A lookup that falls back to a default instead of raising.
MetricLookupNeverRaises(name) == FALSE

\* The lookup metrics_dict[self.watch_metric] (gpe.py:73-75).
MetricLookupRaises(name) == name \notin MetricNames

\* A validation transform that fits the Scaler on the validation data.
ScalerRefitOnValidation(sc) == FittedScaler("X_val")

\* What train does to a Scaler when it scales the validation data: it
\* calls transform only (gpe.py:65-67).
ScalerAfterValidation(sc) == sc

Raise(e) ==
    /\ pc' = "raised"
    /\ exc' = e

\* GPEmul.train up to the while loop (gpe.py:62-89).
TrainCall ==
    /\ pc = "constructed"
    /\ \E xv \in {"none", "ok", "mismatch"}, wm \in WatchMetricInputs,
          nr \in 1..MaxRestarts, me \in 1..MaxEpochs, sp \in {"writable", "unwritable", "unreadable"} :
       \E pt \in 1..me :
          /\ nr * me <= MaxWork
          /\ with_val' = (xv # "none")
          /\ IF xv # "none" /\ scale_data /\ ScalerTransformRaises(xv)
             THEN /\ Raise("ValueError")
                  /\ UNCHANGED <<X_val, watch_metric, metric, n_restarts, max_epochs,
                                 patience, savepath>>
             ELSE /\ X_val' = xv
                  /\ watch_metric' = wm
                  /\ IF MetricLookupRaises(wm)
                     THEN /\ Raise("KeyError")
                          /\ UNCHANGED <<metric, n_restarts, max_epochs, patience,
                                         savepath>>
                     ELSE /\ metric' = wm
                          /\ n_restarts' = nr
                          /\ max_epochs' = me
                          /\ patience' = pt
                          /\ savepath' = sp
                          /\ pc' = "while"
                          /\ exc' = "none"
    /\ scx' = (IF with_val' /\ scale_data THEN ScalerAfterValidation(scx) ELSE scx)
    /\ scy' = (IF with_val' /\ scale_data THEN ScalerAfterValidation(scy) ELSE scy)
    /\ i' = 0
    /\ train_loss_list' = <<>>
    /\ model_state_list' = <<>>
    /\ val_loss_list' = <<>>
    /\ metric_score_list' = <<>>
    /\ UNCHANGED <<printed, scale_data, learn_noise, init_state, model, modeVars,
                   attempt, optimizer, early_stopping, epoch, epochLists,
                   best_model, idx_best, idx_min, metric_score, checkpoint>>
    /\ UNCHANGED emul

\* A loop condition that is off by one.
WhileConditionInclusive == i <= n_restarts

\* while i < n_restarts (gpe.py:90).
WhileCondition == i < n_restarts

\* EarlyStopping(patience, path) (utils.earlystopping, external).
EarlyStoppingNew(p) == [patience |-> p, best |-> <<>>, counter |-> 0, early_stop |-> FALSE]

\* train_once before the epoch loop (gpe.py:116-133), entered from the
\* while loop of train (gpe.py:90-93): the model is reset to init_state,
\* the lengthscales are drawn afresh, optimizer and monitor are created.
\* A reset that randomises the lengthscales of the live hyperparameters
\* without loading the initial state first.
ResetHypersWithoutReload == [model EXCEPT !.ls = attempt + 1]

\* The hyperparameters an attempt starts from (gpe.py:116-122): the
\* initial state is loaded, then the lengthscales are drawn afresh.
ResetHypers == [init_state EXCEPT !.ls = attempt + 1]

\* A monitor constructed by the first attempt and used again by the
\* later ones.
MonitorKeptAcrossAttempts ==
    IF attempt = 0 THEN EarlyStoppingNew(patience) ELSE early_stopping

\* The monitor of an attempt (gpe.py:128): a new EarlyStopping object on
\* the shared savepath.
FreshEarlyStopping == EarlyStoppingNew(patience)

RestartReset ==
    /\ pc = "while"
    /\ WhileCondition
    /\ attempt' = attempt + 1
    /\ printed' = [kind |-> "Restart", n |-> i + 1]
    /\ model' = ResetHypers
    /\ optimizer' = [steps |-> 0]
    /\ early_stopping' = FreshEarlyStopping
    /\ self_train_loss_list' = <<>>
    /\ self_val_loss_list' = <<>>
    /\ self_metric_score_list' = <<>>
    /\ epoch' = 0
    /\ pc' = IF max_epochs > 0 THEN "epoch" ELSE "stopped"
    /\ UNCHANGED <<exc, constructionVars, modeVars, callVars, i, restartLists,
                   best_model, idx_best, idx_min, metric_score, checkpoint>>
    /\ UNCHANGED emul

\* ------------------------------------------------- EarlyStopping
\* The monitor's contract (utils.earlystopping, external): a loss improves
\* when it is the first one seen or lower than the best seen so far.
EarlyStoppingImproves(es, loss) ==
    IF es.best = <<>> THEN TRUE ELSE Lt(loss, es.best[1])

\* early_stopping(loss, model): a new best resets the counter and persists
\* the model; otherwise the counter grows and the flag is raised once
\* patience consecutive calls did not improve.
EarlyStoppingCall(es, loss) ==
    IF EarlyStoppingImproves(es, loss)
    THEN [es EXCEPT !.best = <<loss>>, !.counter = 0]
    ELSE [es EXCEPT !.counter = es.counter + 1,
                    !.early_stop = (es.counter + 1 >= es.patience)]

\* ------------------------------------------------- one epoch
\* A handler that counts the failed attempt as a restart.
ExceptRuntimeErrorCounts ==
    /\ pc' = "while"
    /\ printed' = [kind |-> "Repeating", n |-> i + 1]
    /\ i' = i + 1
    /\ UNCHANGED restartLists
    /\ UNCHANGED exc

\* The handler of train (gpe.py:94-95): the restart is repeated, the
\* counter and the per-restart lists are those of before the attempt.
ExceptRuntimeError ==
    /\ pc' = "while"
    /\ printed' = [kind |-> "Repeating", n |-> i + 1]
    /\ i' = i
    /\ UNCHANGED restartLists
    /\ UNCHANGED exc

\* What train does with an exception leaving train_once (gpe.py:92-95):
\* RuntimeError is handled, anything else leaves train. The attempts
\* started less the restarts recorded are the failed attempts, the current
\* one included; the model follows at most MaxFailures of them.
TrainOnceRaises(e) ==
    IF e = "RuntimeError"
    THEN attempt - i <= MaxFailures /\ ExceptRuntimeError
    ELSE Raise(e) /\ UNCHANGED <<printed, i, restartLists>>

\* What train_step can return in an epoch (gpe.py:174-178).  With
\* validation data the training loss is recorded but never compared, so
\* one non-finite value, NaN, stands for both.
TrainRawLoss ==
    IF with_val THEN RawLoss \ {[k |-> "inf", v |-> 0]} ELSE RawLoss

\* What val_step can return in an epoch (gpe.py:184-192); without
\* validation data it is not called and the value is never read.
ValRawLoss == IF with_val THEN RawLoss ELSE {[k |-> "fin", v |-> 0]}

\* The loss train_once feeds to the monitor (gpe.py:153-156).
MonitoredLoss(train_loss, val_loss) == IF with_val THEN val_loss ELSE train_loss

\* range(self.max_epochs) (gpe.py:135).
\* An epoch loop that runs one epoch more than max_epochs.
EpochBudgetPlusOne == max_epochs + 1

\* range(self.max_epochs) (gpe.py:135).
EpochBudget == max_epochs

\* A loop that never looks at the flag.
BreakNever(es) == FALSE

\* A loop that stops at the first epoch that did not improve.
BreakOnFirstStall(es) == es.counter > 0

\* if early_stopping.early_stop: break (gpe.py:157-159).
BreakOnEarlyStop(es) == es.early_stop

\* One pass of the epoch loop in which nothing raises (gpe.py:135-159):
\* train_step evaluates the loss at the current hyperparameters and steps
\* the optimizer; val_step evaluates the stepped model; the results are
\* appended; the monitor sees the monitored loss and persists a new best.
EpochCompletes ==
    /\ pc = "epoch"
    /\ with_val => X_val = "ok"
    /\ \E rt \in TrainRawLoss, rv \in ValRawLoss :
          LET h0 == model
              h1 == OptimizerStep(model)
              train_loss == LossAt(rt, h0)
              val_loss == LossAt(rv, h1)
              monitored == MonitoredLoss(train_loss, val_loss)
              es1 == EarlyStoppingCall(early_stopping, monitored)
              saves == EarlyStoppingImproves(early_stopping, monitored)
          IN  /\ saves => savepath # "unwritable"
              /\ model' = h1
              /\ optimizer' = [steps |-> optimizer.steps + 1]
              /\ model_training' = ~with_val
              /\ likelihood_training' = ~with_val
              /\ self_train_loss_list' = Append(self_train_loss_list, train_loss)
              /\ self_val_loss_list' =
                    IF with_val THEN Append(self_val_loss_list, val_loss)
                    ELSE self_val_loss_list
              /\ self_metric_score_list' =
                    IF with_val THEN Append(self_metric_score_list, MetricScore(h1))
                    ELSE self_metric_score_list
              /\ early_stopping' = es1
              /\ checkpoint' = IF saves THEN <<h1>> ELSE checkpoint
              /\ IF BreakOnEarlyStop(es1) \/ epoch + 1 >= EpochBudget
                 THEN pc' = "stopped" /\ epoch' = epoch
                 ELSE pc' = "epoch" /\ epoch' = epoch + 1
    /\ UNCHANGED <<exc, printed, constructionVars, callVars, attempt, i, restartLists,
                   best_model, idx_best, idx_min, metric_score>>
    /\ UNCHANGED emul

\* train_step raises in the forward or backward pass (gpe.py:174-175):
\* no optimizer step is taken.
TrainStepRaises ==
    /\ pc = "epoch"
    /\ model_training' = TRUE
    /\ likelihood_training' = TRUE
    /\ TrainOnceRaises("RuntimeError")
    /\ UNCHANGED <<constructionVars, model, callVars, attempt, optimizer,
                   early_stopping, epoch, epochLists, best_model, idx_best, idx_min,
                   metric_score, checkpoint>>
    /\ UNCHANGED emul

\* val_step raises after train_step returned (gpe.py:136-138, 187-190): a
\* numerical failure, or validation inputs whose feature dimensionality is
\* not the model's (a tensor size mismatch, a RuntimeError in torch).
ValStepRaises ==
    /\ pc = "epoch"
    /\ with_val
    /\ model' = OptimizerStep(model)
    /\ optimizer' = [steps |-> optimizer.steps + 1]
    /\ model_training' = FALSE
    /\ likelihood_training' = FALSE
    /\ TrainOnceRaises("RuntimeError")
    /\ UNCHANGED <<constructionVars, callVars, attempt, early_stopping, epoch,
                   epochLists, best_model, idx_best, idx_min, metric_score,
                   checkpoint>>
    /\ UNCHANGED emul

\* The monitor sees a new best and cannot write the checkpoint
\* (gpe.py:153-156): torch.save raises RuntimeError or an OSError,
\* depending on why the path cannot be written.
CheckpointSaveRaises ==
    /\ pc = "epoch"
    /\ with_val => X_val = "ok"
    /\ savepath = "unwritable"
    /\ \E rt \in TrainRawLoss, rv \in ValRawLoss,
          e \in {"RuntimeError", "OSError"} :
          LET h0 == model
              h1 == OptimizerStep(model)
              train_loss == LossAt(rt, h0)
              val_loss == LossAt(rv, h1)
              monitored == MonitoredLoss(train_loss, val_loss)
          IN  /\ EarlyStoppingImproves(early_stopping, monitored)
              /\ model' = h1
              /\ optimizer' = [steps |-> optimizer.steps + 1]
              /\ model_training' = ~with_val
              /\ likelihood_training' = ~with_val
              /\ self_train_loss_list' = Append(self_train_loss_list, train_loss)
              /\ self_val_loss_list' =
                    IF with_val THEN Append(self_val_loss_list, val_loss)
                    ELSE self_val_loss_list
              /\ self_metric_score_list' =
                    IF with_val THEN Append(self_metric_score_list, MetricScore(h1))
                    ELSE self_metric_score_list
              /\ TrainOnceRaises(e)
    /\ UNCHANGED <<constructionVars, callVars, attempt, early_stopping, epoch,
                   best_model, idx_best, idx_min, metric_score, checkpoint>>
    /\ UNCHANGED emul

\* ------------------------------------------------- end of a restart
\* The per-epoch list whose argmin is the best epoch (gpe.py:162-165).
BestEpochSeries == IF with_val THEN self_val_loss_list ELSE self_train_loss_list

\* train_once after the loop (gpe.py:161-165): the checkpoint is read back
\* and the best epoch is the argmin of the monitored series.
LoadBest ==
    /\ pc = "stopped"
    /\ savepath # "unreadable"
    /\ checkpoint # <<>>
    /\ Len(BestEpochSeries) > 0
    /\ best_model' = checkpoint
    /\ idx_best' = NpArgmin(BestEpochSeries)
    /\ pc' = "else"
    /\ UNCHANGED <<exc, printed, constructionVars, model, modeVars, callVars, attempt,
                   i, restartLists, optimizer, early_stopping, epoch, epochLists,
                   idx_min, metric_score, checkpoint>>
    /\ UNCHANGED emul

\* torch.load cannot read back what was written to savepath (gpe.py:161):
\* a damaged archive is a RuntimeError, an empty file an EOFError.
LoadRaises ==
    /\ pc = "stopped"
    /\ savepath = "unreadable"
    /\ \E e \in {"RuntimeError", "EOFError"} :
          TrainOnceRaises(e)
    /\ UNCHANGED <<constructionVars, model, modeVars, callVars, attempt, optimizer,
                   early_stopping, epoch, epochLists, best_model, idx_best, idx_min,
                   metric_score, checkpoint>>
    /\ UNCHANGED emul

\* What the else branch records of the restart (gpe.py:99-103).
RecordedTrainLoss == self_train_loss_list[idx_best + 1]

RecordedModelState == best_model[1]

RecordedValLoss == self_val_loss_list[idx_best + 1]

\* The score of the last epoch run instead of the best epoch's.
RecordedMetricScoreLast == self_metric_score_list[Len(self_metric_score_list)]

RecordedMetricScore == self_metric_score_list[idx_best + 1]

\* A snapshot list whose entries all refer to one shared object, which
\* holds the snapshot recorded last.
SnapshotsSharingOneObject ==
    [k \in 1..(Len(model_state_list) + 1) |-> RecordedModelState]

\* model_state_list.append(self.best_model) (gpe.py:100): best_model is
\* the object torch.load has just created (gpe.py:161).
SnapshotsAfterAppend == Append(model_state_list, RecordedModelState)

\* The else branch of the try in train (gpe.py:96-103).
RestartElse ==
    /\ pc = "else"
    /\ i' = i + 1
    /\ train_loss_list' = Append(train_loss_list, RecordedTrainLoss)
    /\ model_state_list' = SnapshotsAfterAppend
    /\ val_loss_list' =
          IF with_val THEN Append(val_loss_list, RecordedValLoss) ELSE val_loss_list
    /\ metric_score_list' =
          IF with_val THEN Append(metric_score_list, RecordedMetricScore)
          ELSE metric_score_list
    /\ pc' = "while"
    /\ UNCHANGED <<exc, printed, constructionVars, model, modeVars, callVars, attempt,
                   optimizer, early_stopping, epoch, epochLists, best_model, idx_best,
                   idx_min, metric_score, checkpoint>>
    /\ UNCHANGED emul

\* ------------------------------------------------- final selection
\* The loss series the final selection minimises (gpe.py:105-109).
SelectionSeries == IF with_val THEN val_loss_list ELSE train_loss_list

\* idx_min (gpe.py:106, 109).
SelectIndex == NpArgmin(SelectionSeries)

\* The end of train (gpe.py:105-112).
Select ==
    /\ pc = "while"
    /\ ~WhileCondition
    /\ Len(SelectionSeries) > 0
    /\ idx_min' = SelectIndex
    /\ metric_score' =
          IF with_val THEN <<metric_score_list[SelectIndex + 1]>> ELSE metric_score
    /\ best_model' = <<model_state_list[SelectIndex + 1]>>
    /\ model' = model_state_list[SelectIndex + 1]
    /\ pc' = "fitted"
    /\ UNCHANGED <<exc, printed, constructionVars, modeVars, callVars, attempt, i,
                   restartLists, optimizer, early_stopping, epoch, epochLists,
                   idx_best, checkpoint>>
    /\ UNCHANGED emul

\* ------------------------------------------------- predict and sample
\* A query that fits the Scaler on the query inputs before transforming.
ScalerRefitOnQuery(sc) == FittedScaler("X_new")

\* What predict and sample do to the input Scaler: they call transform
\* only (gpe.py:213-214, 232-233).
ScalerAfterQuery(sc) == sc

\* GPEmul.predict (gpe.py:209-225): model and likelihood are put in
\* evaluation mode, the inputs are transformed, the posterior is read.
Predict ==
    /\ pc = "fitted"
    /\ model_training' = FALSE
    /\ likelihood_training' = FALSE
    /\ scx' = (IF scale_data THEN ScalerAfterQuery(scx) ELSE scx)
    /\ UNCHANGED <<pc, exc, printed, scale_data, scy, learn_noise, init_state, model, callVars, attempt, i,
                   restartLists, optimizer, early_stopping, epoch, epochLists,
                   best_model, idx_best, idx_min, metric_score, checkpoint>>
    /\ UNCHANGED emul

\* GPEmul.sample (gpe.py:228-244).
Sample ==
    /\ pc = "fitted"
    /\ model_training' = FALSE
    /\ likelihood_training' = FALSE
    /\ scx' = (IF scale_data THEN ScalerAfterQuery(scx) ELSE scx)
    /\ UNCHANGED <<pc, exc, printed, scale_data, scy, learn_noise, init_state, model, callVars, attempt, i,
                   restartLists, optimizer, early_stopping, epoch, epochLists,
                   best_model, idx_best, idx_min, metric_score, checkpoint>>
    /\ UNCHANGED emul

\* The training data the model is conditioned on (gpe.py:28-38): each
\* array as transformed by its Scaler when scale_data is set, as given
\* otherwise.
TrainingData(sd, sx, sy) ==
    IF sd THEN [X |-> <<"X_train", sx>>, y |-> <<"y_train", sy>>]
          ELSE [X |-> <<"X_train">>, y |-> <<"y_train">>]

\* The mean GPEmul.predict returns for the inputs x (gpe.py:213-223): the
\* inputs are transformed by the input Scaler when scale_data is set, the
\* posterior of the model at hyperparameters h is read, and its mean is
\* transformed back by the target Scaler when scale_data is set.
PredictMean(sd, sx, sy, h, x) ==
    [conditioned_on |-> TrainingData(sd, sx, sy),
     hypers |-> h,
     at |-> IF sd THEN <<x, sx>> ELSE <<x>>,
     unscaled_by |-> IF sd THEN <<sy>> ELSE <<>>]

\* ------------------------------------------------------ load_emulator
\* The files a fitted emulator is persisted to: the training inputs and
\* targets it was constructed from, its validation data if it had any, and
\* a snapshot of its hyperparameters.
PersistedArtifacts ==
    [X_train |-> "X_train", y_train |-> "y_train",
     has_val |-> with_val, gpe |-> model]

\* The constructor call of load_emulator (gpe.py:263): both flags are
\* literals, whatever the persisted emulator was constructed with.
LoadedLearnNoise == FALSE

LoadedScaleData == TRUE

\* The emulator load_emulator builds before any validation pass
\* (gpe.py:260-268): a new GPEmul on the reloaded training data, the
\* persisted snapshot loaded into its model.
LoadedEmulator(files, wv) ==
    [scale_data |-> LoadedScaleData,
     learn_noise |-> LoadedLearnNoise,
     scx |-> ScalerAtConstruction(LoadedScaleData, files.X_train),
     scy |-> ScalerAtConstruction(LoadedScaleData, files.y_train),
     init_state |-> InitHypers,
     model |-> files.gpe,
     model_training |-> TRUE,
     likelihood_training |-> TRUE,
     with_val |-> wv,
     watch_metric |-> "none",
     metric_score |-> <<>>]

\* The validation pass of load_emulator (gpe.py:269-281): one predict on
\* the validation inputs, the targets and predictions transformed by the
\* target Scaler, the metric recomputed at the loaded hyperparameters.
LoadedValidation(e, wm) ==
    [e EXCEPT !.watch_metric = wm,
              !.model_training = FALSE,
              !.likelihood_training = FALSE,
              !.scx = IF e.scale_data THEN ScalerAfterQuery(e.scx) ELSE e.scx,
              !.metric_score = <<MetricScore(e.model)>>]

\* GPEmulUtils.load_emulator (gpe.py:256-286), called in a later session
\* on the files of the fitted emulator.  A missing validation file raises
\* in np.loadtxt (gpe.py:270-271), an unknown metric name in the lookup
\* (gpe.py:273-275); nothing is returned then.  Of the training session
\* only the fitted emulator itself is kept, its working lists are gone.
LoadEmulator ==
    /\ pc = "fitted"
    /\ \E wv \in BOOLEAN :
          LET e == LoadedEmulator(PersistedArtifacts, wv) IN
          IF ~wv
          THEN /\ emul' = <<e>>
               /\ exc' = "none"
          ELSE IF ~PersistedArtifacts.has_val
          THEN /\ emul' = <<>>
               /\ exc' = "OSError"
          ELSE \E wm \in WatchMetricInputs :
                  IF MetricLookupRaises(wm)
                  THEN /\ emul' = <<>>
                       /\ exc' = "KeyError"
                  ELSE /\ emul' = <<LoadedValidation(e, wm)>>
                       /\ exc' = "none"
    /\ pc' = "loaded"
    /\ printed' = [kind |-> "none", n |-> 0]
    /\ attempt' = 0
    /\ i' = 0
    /\ train_loss_list' = <<>>
    /\ model_state_list' = <<>>
    /\ val_loss_list' = <<>>
    /\ metric_score_list' = <<>>
    /\ optimizer' = [steps |-> 0]
    /\ early_stopping' = NoEarlyStopping
    /\ epoch' = 0
    /\ self_train_loss_list' = <<>>
    /\ self_val_loss_list' = <<>>
    /\ self_metric_score_list' = <<>>
    /\ idx_best' = 0
    /\ idx_min' = 0
    /\ UNCHANGED <<constructionVars, model, modeVars, callVars, best_model,
                   metric_score, checkpoint>>

Next ==
    \/ TrainCall
    \/ RestartReset
    \/ EpochCompletes
    \/ TrainStepRaises
    \/ ValStepRaises
    \/ CheckpointSaveRaises
    \/ LoadBest
    \/ LoadRaises
    \/ RestartElse
    \/ Select
    \/ Predict
    \/ Sample
    \/ LoadEmulator

Spec == Init /\ [][Next]_vars

\* The steps train takes by itself once it has been called (gpe.py:89-112).
TrainSteps ==
    \/ RestartReset
    \/ EpochCompletes
    \/ TrainStepRaises
    \/ ValStepRaises
    \/ CheckpointSaveRaises
    \/ LoadBest
    \/ LoadRaises
    \/ RestartElse
    \/ Select

\* The program with train running on once it has been called: a call that
\* can take a step takes one.
SpecFair == Init /\ [][Next]_vars /\ WF_vars(TrainSteps)

\* The same program, constructed with either noise policy.
SpecAnyNoise == InitAnyNoise /\ [][Next]_vars

\* ================================================================ claims

\* Loss a is a lower loss than b: a number is lower than a larger number,
\* and any number is lower than NaN, which is no loss value at all.
Lower(a, b) == Lt(a, b) \/ (~IsNaN(a) /\ IsNaN(b))

\* s[k] is the minimum of s, and no earlier element attains it.
FirstMinimum(s, k) ==
    /\ \A m \in 1..Len(s) : ~Lower(s[m], s[k])
    /\ \A m \in 1..(k - 1) : Lower(s[k], s[m])

AllFinite(s) == \A k \in 1..Len(s) : IsFinite(s[k])

\* C1: when train has returned, the live model and best_model are the
\* snapshot of the recorded restart whose validation loss (training loss
\* without validation data) is minimal, the first such restart on a tie.
C1_SelectsFirstMinimum ==
    pc = "fitted" =>
        \E k \in 1..Len(SelectionSeries) :
            /\ FirstMinimum(SelectionSeries, k)
            /\ model = model_state_list[k]
            /\ best_model = <<model_state_list[k]>>
            /\ model.ls = SelectionSeries[k].h.ls

\* C2: at the final selection exactly n_restarts snapshots are recorded,
\* one per successful restart, and every per-restart list has length
\* n_restarts, whatever failed attempts came in between.
C2_ListsHaveNRestarts ==
    ((pc = "while" /\ ~WhileCondition) \/ pc = "fitted") =>
        /\ Len(model_state_list) = n_restarts
        /\ Len(train_loss_list) = n_restarts
        /\ with_val => Len(val_loss_list) = n_restarts
        /\ with_val => Len(metric_score_list) = n_restarts
        /\ Cardinality({model_state_list[k].ls : k \in 1..Len(model_state_list)})
              = n_restarts

\* C2 witness: the selection was made over two restarts with a failed
\* attempt among the attempts.
C2_Witness ==
    /\ pc = "fitted"
    /\ n_restarts = 2
    /\ attempt = 3
    /\ model_state_list[2].ls = 3

\* C3: a RuntimeError at any epoch of a restart leaves the restart counter
\* and the per-restart lists unchanged, and the next attempt is the same
\* restart index, started from the reset state.
C3_FailureRepeatsRestart ==
    [][/\ (pc \in {"epoch", "stopped"} /\ pc' = "while") =>
              /\ i' = i
              /\ restartLists' = restartLists
              /\ i' < n_restarts
              /\ printed' = [kind |-> "Repeating", n |-> i + 1]
       /\ (pc = "while" /\ printed.kind = "Repeating") =>
              /\ i' = i
              /\ restartLists' = restartLists
              /\ printed' = [kind |-> "Restart", n |-> i + 1]
              /\ model' = [init_state EXCEPT !.ls = attempt']
              /\ optimizer'.steps = 0
              /\ early_stopping'.counter = 0 /\ ~early_stopping'.early_stop
              /\ self_train_loss_list' = <<>>
              /\ epoch' = 0]_vars

\* C3 witness: a restart that failed after its first epoch, following a
\* recorded restart, is about to be repeated.
C3_Witness ==
    /\ pc = "while"
    /\ printed = [kind |-> "Repeating", n |-> 2]
    /\ i = 1
    /\ Len(model_state_list) = 1
    /\ Len(self_train_loss_list) > 0

\* C4: a restart in which a training or validation loss is NaN or infinite
\* is never recorded and its snapshot never becomes the live model.
C4_NonFiniteRestartDiscarded ==
    /\ pc = "else" => AllFinite(self_train_loss_list) /\ AllFinite(self_val_loss_list)
    /\ AllFinite(train_loss_list)
    /\ AllFinite(val_loss_list)
    /\ pc = "fitted" => IsFinite(SelectionSeries[idx_min + 1])

\* C5: a configuration or persistence failure inside a restart (validation
\* inputs of another feature dimensionality, an unwritable checkpoint path,
\* a checkpoint that cannot be read back) leaves train with the exception
\* and the restart is not repeated.
C5_FatalFailureStopsTrain ==
    [][((ValStepRaises /\ X_val = "mismatch") \/ CheckpointSaveRaises \/ LoadRaises) =>
          (pc' = "raised" /\ exc' # "none" /\ exc' # "RuntimeError"
             /\ printed'.kind # "Repeating")]_vars

\* C6: a watch_metric name outside {R2Score, MAPE, MSE} makes train fail
\* before any restart attempt: no epoch is run, no checkpoint is written
\* and the hyperparameters are those of before the call.
C6_UnknownMetricFailsFirst ==
    (watch_metric \notin (MetricNames \cup {"none"})) =>
        /\ pc = "raised"
        /\ exc = "KeyError"
        /\ attempt = 0
        /\ optimizer.steps = 0
        /\ self_train_loss_list = <<>>
        /\ checkpoint = <<>>
        /\ model = init_state

\* C6 witness: train was called with an unknown metric name and validation
\* data.
C6_Witness ==
    /\ watch_metric = "RMSE"
    /\ with_val
    /\ exc = "KeyError"

\* The best loss among the first k entries of s, as a monitor that keeps
\* the first loss and then every lower one sees it.
RECURSIVE BestSoFar(_, _)
BestSoFar(s, k) ==
    IF k = 1 THEN s[1]
    ELSE IF Lt(s[k], BestSoFar(s, k - 1)) THEN s[k]
    ELSE BestSoFar(s, k - 1)

\* The number of consecutive epochs, ending with epoch k, whose loss did
\* not improve on the best seen before them.
RECURSIVE Stalled(_, _)
Stalled(s, k) ==
    IF k = 1 THEN 0
    ELSE IF Lt(s[k], BestSoFar(s, k - 1)) THEN 0
    ELSE 1 + Stalled(s, k - 1)

InRestart == pc \in {"epoch", "stopped", "else"}

\* C7: once the monitored loss has not improved for patience consecutive
\* epochs, the flag is raised and the loop is left at that epoch: it is the
\* last epoch of the restart and no further optimizer step is taken.
C7_StopsWhenPatienceExhausted ==
    InRestart =>
        \A k \in 1..Len(BestEpochSeries) :
            Stalled(BestEpochSeries, k) >= patience =>
                /\ k = Len(BestEpochSeries)
                /\ early_stopping.early_stop
                /\ pc # "epoch"
                /\ model.step = k
                /\ optimizer.steps = k

\* C7 witness: a restart stopped by the flag before the epoch budget.
C7_Witness ==
    /\ pc = "stopped"
    /\ early_stopping.early_stop
    /\ Stalled(BestEpochSeries, Len(BestEpochSeries)) >= patience
    /\ Len(BestEpochSeries) < max_epochs

\* C8: with patience = max_epochs a restart that does not fail runs exactly
\* max_epochs epochs whatever the monitored losses are, and the flag is not
\* raised before the budget is used up.
C8_FullBudgetWhenPatienceIsMax ==
    (InRestart /\ patience = max_epochs) =>
        /\ early_stopping.early_stop => Len(self_train_loss_list) = max_epochs
        /\ pc \in {"stopped", "else"} =>
              /\ Len(self_train_loss_list) = max_epochs
              /\ optimizer.steps = max_epochs

\* C8 witness: a restart with patience = max_epochs whose monitored loss
\* never improved after the first epoch ran its whole budget.
C8_Witness ==
    /\ pc = "stopped"
    /\ patience = max_epochs
    /\ max_epochs > 1
    /\ Stalled(BestEpochSeries, Len(BestEpochSeries)) = max_epochs - 1

\* C9: with validation data the retained metric score is the score of the
\* selected restart at the hyperparameters its winning validation loss was
\* evaluated at: same restart, same epoch.
C9_MetricOfWinningLoss ==
    (pc = "fitted" /\ with_val) =>
        /\ metric_score = <<MetricScore(val_loss_list[idx_min + 1].h)>>
        /\ metric_score[1].h.ls = model.ls
        /\ best_model = <<model_state_list[idx_min + 1]>>

\* C9 witness: the second restart won, and its best epoch was not its last.
C9_Witness ==
    /\ pc = "fitted"
    /\ with_val
    /\ idx_min = 1
    /\ max_epochs = 2
    /\ metric_score[1].h.step = 1
    /\ optimizer.steps = 2

\* C10: predict and sample on a fitted emulator change nothing but the
\* train/eval mode flags: hyperparameters, scaling state, best snapshot and
\* metric score stay as they are.
C10_QueriesOnlySetModeFlags ==
    [][(pc = "fitted" /\ pc' = "fitted") =>
          UNCHANGED <<model, scale_data, scx, scy, learn_noise, init_state, best_model,
                      metric_score, emul, pc, exc, printed, callVars, attempt, i,
                      restartLists, optimizer, early_stopping, epoch, epochLists,
                      idx_best, idx_min, checkpoint>>]_vars

\* C10 witness: a query put a model trained without validation data, left
\* in training mode by its last train_step, in evaluation mode.
C10_Witness ==
    /\ pc = "fitted"
    /\ ~with_val
    /\ scale_data
    /\ ~model_training
    /\ ~likelihood_training

\* C11: the two Scalers are fitted once, on the training data, when the
\* emulator is constructed, and never again: in every state reached
\* through train (with or without validation data), predict, sample and
\* load_emulator, the Scalers of the fitted emulator and of the loaded one
\* are the ones their constructor fitted on the training data.
FittedAtConstruction(sd, sx, sy) ==
    /\ sx = ScalerAtConstruction(sd, "X_train")
    /\ sy = ScalerAtConstruction(sd, "y_train")

C11_ScalersFittedOnceAtConstruction ==
    /\ FittedAtConstruction(scale_data, scx, scy)
    /\ emul # <<>> =>
         FittedAtConstruction(emul[1].scale_data, emul[1].scx, emul[1].scy)

\* A scaled emulator was trained on validation data, queried, persisted
\* and loaded again with a validation pass.
C11_Witness ==
    /\ pc = "loaded"
    /\ scale_data
    /\ with_val
    /\ ~model_training
    /\ emul # <<>>
    /\ emul[1].with_val
    /\ emul[1].scx = FittedScaler("X_train")
    /\ scx = FittedScaler("X_train")

\* C12: an emulator returned by load_emulator has the scaling
\* configuration, the noise policy and the hyperparameters of the fitted
\* emulator it was persisted from, whatever flags that one was constructed
\* with, and predicts on the training inputs what the fitted one predicts.
C12_LoadReproducesFit ==
    (pc = "loaded" /\ emul # <<>>) =>
        /\ emul[1].scale_data = scale_data
        /\ emul[1].learn_noise = learn_noise
        /\ emul[1].model = model
        /\ PredictMean(emul[1].scale_data, emul[1].scx, emul[1].scy,
                       emul[1].model, "X_train")
             = PredictMean(scale_data, scx, scy, model, "X_train")

\* C13: when a restart has stopped and its checkpoint has been read, the
\* hyperparameters in best_model are the ones at which the minimal loss of
\* the monitored series of this restart was evaluated, on validation loss
\* and on training loss alike.
C13_BestModelIsWhereMinimumWasEvaluated ==
    pc = "else" =>
        \E k \in 1..Len(BestEpochSeries) :
            /\ FirstMinimum(BestEpochSeries, k)
            /\ best_model = <<BestEpochSeries[k].h>>

\* The epoch (counted from 0) of the current attempt at which the monitor
\* last wrote the checkpoint: the model it saved had taken one optimizer
\* step per epoch up to and including that one.
LastSavedEpoch == checkpoint[1].step - 1

\* The monitor has been called in the current attempt.
MonitorCalled ==
    /\ pc \in {"epoch", "stopped", "else"}
    /\ Len(BestEpochSeries) > 0

\* C14: the loss the monitor is fed in an epoch is that epoch's entry of
\* the monitored series (validation loss with validation data, training
\* loss without), so its best loss is the entry of the epoch it last saved
\* at; and when the restart has stopped, idx_best is the first index at
\* which the monitored series is minimal and is the epoch the monitor last
\* saved at.
C14_IdxBestIsLastSavedEpoch ==
    /\ MonitorCalled =>
          /\ checkpoint # <<>>
          /\ checkpoint[1].ls = attempt
          /\ early_stopping.best = <<BestEpochSeries[LastSavedEpoch + 1]>>
    /\ pc = "else" =>
          /\ FirstMinimum(BestEpochSeries, idx_best + 1)
          /\ idx_best = LastSavedEpoch

\* C15: the checkpoint a restart reads when it has stopped was written by
\* the monitor of that same attempt, never by an earlier restart or by a
\* failed attempt, although all of them write to the one savepath.
C15_CheckpointIsOfThisAttempt ==
    /\ pc = "stopped" =>
          /\ checkpoint # <<>>
          /\ checkpoint[1].ls = attempt
    /\ pc = "else" =>
          /\ best_model # <<>>
          /\ best_model[1].ls = attempt

\* The second restart has read its checkpoint after one failed attempt
\* and one recorded restart had used the same savepath.
C15_Witness ==
    /\ pc = "else"
    /\ i = 1
    /\ attempt = 3
    /\ Len(model_state_list) = 1
    /\ best_model = <<[ls |-> 3, step |-> 1]>>

\* A step leaves the captured initial state alone, and if it begins an
\* attempt it begins it at the reset state.
AttemptStartsFromInitialState ==
    /\ init_state' = init_state
    /\ init_state = InitHypers
    /\ attempt' = attempt + 1 =>
         /\ model' = [InitHypers EXCEPT !.ls = attempt']
         /\ optimizer' = [steps |-> 0]
         /\ early_stopping' = EarlyStoppingNew(patience)
         /\ self_train_loss_list' = <<>>
         /\ self_val_loss_list' = <<>>
         /\ self_metric_score_list' = <<>>

\* C16: every attempt, a retry after a failure included, begins at the
\* initial hyperparameters captured by the constructor, the lengthscales
\* apart, with an optimizer that has taken no step, a new monitor and
\* empty per-epoch lists; and no step ever changes the captured initial
\* state.
C16_AttemptStartsFromInitialState == [][AttemptStartsFromInitialState]_vars

\* A retry begins after an attempt that had stepped the model, written a
\* checkpoint and then failed.
C16_Witness ==
    /\ pc = "epoch"
    /\ epoch = 0
    /\ attempt = 2
    /\ i = 0
    /\ checkpoint = <<[ls |-> 1, step |-> 1]>>
    /\ model = [ls |-> 2, step |-> 0]
    /\ init_state = InitHypers

\* Every entry of the list old is still the same entry of the list new.
Kept(old, new) ==
    /\ Len(new) >= Len(old)
    /\ \A k \in 1..Len(old) : new[k] = old[k]

\* A step of train keeps every entry of the four per-restart lists.
RecordedEntriesKept ==
    (pc \in {"while", "epoch", "stopped", "else"} /\ restartLists' # restartLists) =>
        /\ Kept(model_state_list, model_state_list')
        /\ Kept(train_loss_list, train_loss_list')
        /\ Kept(val_loss_list, val_loss_list')
        /\ Kept(metric_score_list, metric_score_list')

\* C17: while train runs, no step of a later attempt, failed or not,
\* changes a snapshot or a loss already in the per-restart lists.
C17_RecordedEntriesNeverChange == [][RecordedEntriesKept]_vars

\* The snapshot of the first restart is as it was recorded after a failed
\* attempt and a second recorded restart have trained the shared model.
C17_Witness ==
    /\ pc = "while"
    /\ i = 2
    /\ attempt = 3
    /\ model_state_list[1].ls = 1
    /\ model_state_list[2].ls = 3
    /\ train_loss_list[1].h.ls = 1

\* An attempt is in an epoch within the budget, and one that has stopped
\* has run at least one epoch and at most max_epochs.
EpochsWithinBudget ==
    /\ pc = "epoch" =>
          /\ epoch + 1 \in 1..max_epochs
          /\ Len(self_train_loss_list) = epoch
    /\ pc \in {"stopped", "else"} =>
          Len(self_train_loss_list) \in 1..max_epochs

\* train never gives a RuntimeError of an attempt to its caller.
FailureNeverSurfaced == pc = "raised" => exc # "RuntimeError"

\* With validation inputs whose validation step fails in every attempt,
\* train is never past the first restart: it neither records a restart,
\* nor returns, nor raises.
AlwaysFailingNeverEnds ==
    (X_val = "mismatch" /\ exc = "none") =>
        /\ pc \in {"while", "epoch"}
        /\ i = 0
        /\ model_state_list = <<>>

\* The attempt under way is bound to fail and the failures followed here
\* are used up.
RetriesExhausted ==
    /\ pc = "epoch"
    /\ with_val
    /\ X_val # "ok"
    /\ attempt - i > MaxFailures

TrainEnded == pc \in {"fitted", "raised"}

\* C18: every attempt runs at least one and at most max_epochs epochs;
\* a call of train in which only finitely many attempts fail reaches the
\* final selection (or raises); and the retry is not capped: a failed
\* attempt is never surfaced, so with every attempt failing train neither
\* returns nor raises.
C18_BoundedEpochsUnboundedRetries ==
    /\ [](EpochsWithinBudget /\ FailureNeverSurfaced /\ AlwaysFailingNeverEnds)
    /\ (pc = "while") ~> (TrainEnded \/ RetriesExhausted)

\* train has returned from two restarts with one failed attempt among its
\* attempts, the last attempt having run the whole epoch budget.
C18_Witness ==
    /\ pc = "fitted"
    /\ n_restarts = 2
    /\ max_epochs = 2
    /\ attempt = n_restarts + MaxFailures
    /\ Len(self_train_loss_list) = max_epochs

====
